---- MODULE Spec2Model ----
(***************************************************************************)
(* Model of scripts/main.py: one run of main(), which calls the crawler    *)
(* once, parses the extracted text with json.loads, validates every item   *)
(* with the pydantic model LeaderboardEntry, and writes the validated      *)
(* entries to OUTPUT_FILE with json.dump(..., indent=2).                   *)
(*                                                                         *)
(* Text (the extracted content, the file on disk) is a sequence of JSON    *)
(* tokens; a Python object produced by json.loads is a "value" record.     *)
(* Floating point numbers are fixed-point, counted in tenths.              *)
(***************************************************************************)
EXTENDS Integers, Sequences, FiniteSets, TLC

\* Longest list of records the extraction service returns in the model.
MaxRecords == 2

\* indent=2 of json.dump
Indent == 2

-----------------------------------------------------------------------------
\* Python objects as json.loads builds them. Every value has the same shape so
\* that any two can be compared; k is the Python type.

JNull == [k |-> "null", n |-> 0, s |-> "", keys |-> <<>>, items |-> <<>>]
JInt(i) == [k |-> "int", n |-> i, s |-> "", keys |-> <<>>, items |-> <<>>]
JFloat(tenths) == [k |-> "float", n |-> tenths, s |-> "", keys |-> <<>>, items |-> <<>>]
JStr(str) == [k |-> "str", n |-> 0, s |-> str, keys |-> <<>>, items |-> <<>>]
JList(vs) == [k |-> "list", n |-> 0, s |-> "", keys |-> <<>>, items |-> vs]
JDict(ks, vs) == [k |-> "dict", n |-> 0, s |-> "", keys |-> ks, items |-> vs]

\* Tokens of JSON text. "ws" is a newline followed by n spaces; "junk" is any
\* character sequence that starts no JSON token.
Tok(t) == [t |-> t, n |-> 0, s |-> ""]
TInt(i) == [t |-> "int", n |-> i, s |-> ""]
TFloat(tenths) == [t |-> "float", n |-> tenths, s |-> ""]
TStr(str) == [t |-> "str", n |-> 0, s |-> str]
TWs(spaces) == [t |-> "ws", n |-> spaces, s |-> ""]

-----------------------------------------------------------------------------
\* json.dumps / json.dump: the text of a value. indent < 0 stands for
\* indent=None (no line breaks); otherwise every item of a non-empty container
\* goes on its own line, indented by indent * depth.

NewLine(indent, level) == IF indent < 0 THEN <<>> ELSE <<TWs(indent * level)>>

RECURSIVE Encode(_, _, _)
RECURSIVE EncodeItems(_, _, _, _)
RECURSIVE EncodeMembers(_, _, _, _, _)

EncodeItems(vs, i, indent, level) ==
    IF i > Len(vs) THEN <<>>
    ELSE (IF i > 1 THEN <<Tok(",")>> ELSE <<>>)
         \o NewLine(indent, level) \o Encode(vs[i], indent, level)
         \o EncodeItems(vs, i + 1, indent, level)

EncodeMembers(ks, vs, i, indent, level) ==
    IF i > Len(ks) THEN <<>>
    ELSE (IF i > 1 THEN <<Tok(",")>> ELSE <<>>)
         \o NewLine(indent, level) \o <<TStr(ks[i]), Tok(":")>>
         \o Encode(vs[i], indent, level)
         \o EncodeMembers(ks, vs, i + 1, indent, level)

Encode(v, indent, level) ==
    CASE v.k = "null" -> <<Tok("null")>>
      [] v.k = "int" -> <<TInt(v.n)>>
      [] v.k = "float" -> <<TFloat(v.n)>>
      [] v.k = "str" -> <<TStr(v.s)>>
      [] v.k = "list" ->
            IF v.items = <<>> THEN <<Tok("["), Tok("]")>>
            ELSE <<Tok("[")>> \o EncodeItems(v.items, 1, indent, level + 1)
                 \o NewLine(indent, level) \o <<Tok("]")>>
      [] v.k = "dict" ->
            IF v.keys = <<>> THEN <<Tok("{"), Tok("}")>>
            ELSE <<Tok("{")>> \o EncodeMembers(v.keys, v.items, 1, indent, level + 1)
                 \o NewLine(indent, level) \o <<Tok("}")>>

JsonDump(v, indent) == Encode(v, indent, 0)

-----------------------------------------------------------------------------
\* json.loads: a recursive-descent parse of the text. White space between
\* tokens is skipped; text left over after the value is an error ("Extra
\* data"); a key given twice keeps its first position and its last value.

SkipWs(text) == SelectSeq(text, LAMBDA t : t.t # "ws")

ParseFail == [ok |-> FALSE, val |-> JNull, rest |-> <<>>]
ParseOk(v, rest) == [ok |-> TRUE, val |-> v, rest |-> rest]

IndexOf(ks, key) ==
    IF \E i \in 1..Len(ks) : ks[i] = key
    THEN CHOOSE i \in 1..Len(ks) : ks[i] = key
    ELSE 0

RECURSIVE ParseValue(_)
RECURSIVE ParseItems(_, _)
RECURSIVE ParseMembers(_, _, _)

ParseItems(ts, acc) ==
    LET r == ParseValue(ts) IN
    IF ~r.ok \/ r.rest = <<>> THEN ParseFail
    ELSE IF Head(r.rest).t = "," THEN ParseItems(Tail(r.rest), Append(acc, r.val))
    ELSE IF Head(r.rest).t = "]" THEN ParseOk(JList(Append(acc, r.val)), Tail(r.rest))
    ELSE ParseFail

ParseMembers(ts, ks, vs) ==
    IF Len(ts) < 2 \/ ts[1].t # "str" \/ ts[2].t # ":" THEN ParseFail
    ELSE
      LET r == ParseValue(Tail(Tail(ts)))
          at == IndexOf(ks, ts[1].s)
          ks2 == IF at = 0 THEN Append(ks, ts[1].s) ELSE ks
          vs2 == IF at = 0 THEN Append(vs, r.val) ELSE [vs EXCEPT ![at] = r.val]
      IN
      IF ~r.ok \/ r.rest = <<>> THEN ParseFail
      ELSE IF Head(r.rest).t = "," THEN ParseMembers(Tail(r.rest), ks2, vs2)
      ELSE IF Head(r.rest).t = "}" THEN ParseOk(JDict(ks2, vs2), Tail(r.rest))
      ELSE ParseFail

ParseValue(ts) ==
    IF ts = <<>> THEN ParseFail
    ELSE
      LET h == Head(ts) IN
      CASE h.t = "null" -> ParseOk(JNull, Tail(ts))
        [] h.t = "int" -> ParseOk(JInt(h.n), Tail(ts))
        [] h.t = "float" -> ParseOk(JFloat(h.n), Tail(ts))
        [] h.t = "str" -> ParseOk(JStr(h.s), Tail(ts))
        [] h.t = "[" ->
              IF Len(ts) >= 2 /\ ts[2].t = "]"
              THEN ParseOk(JList(<<>>), Tail(Tail(ts)))
              ELSE ParseItems(Tail(ts), <<>>)
        [] h.t = "{" ->
              IF Len(ts) >= 2 /\ ts[2].t = "}"
              THEN ParseOk(JDict(<<>>, <<>>), Tail(Tail(ts)))
              ELSE ParseMembers(Tail(ts), <<>>, <<>>)
        [] OTHER -> ParseFail

\* json.loads that stops at the end of the first value (raw_decode).
JsonLoadsLenient(text) ==
    LET r == ParseValue(SkipWs(text)) IN
    IF r.ok THEN [ok |-> TRUE, val |-> r.val]
    ELSE [ok |-> FALSE, val |-> JNull]

\* json.loads(text): [ok, val]; ~ok is json.JSONDecodeError.
JsonLoads(text) ==
    LET r == ParseValue(SkipWs(text)) IN
    IF r.ok /\ r.rest = <<>> THEN [ok |-> TRUE, val |-> r.val]
    ELSE [ok |-> FALSE, val |-> JNull]

-----------------------------------------------------------------------------
\* class LeaderboardEntry(BaseModel): the fields in declaration order, the key
\* each is read from and dumped under (its alias when it has one), and its
\* declared type.

FieldNames ==
    <<"rank", "model", "arena_score", "ci_95", "votes", "organization", "license">>

Alias(f) ==
    CASE f = "arena_score" -> "arena score"
      [] f = "ci_95" -> "95% CI"
      [] OTHER -> f

FieldType(f) ==
    CASE f \in {"rank", "votes"} -> "int"
      [] f = "arena_score" -> "float"
      [] OTHER -> "str"

\* The strings of the model that Python reads as a number: the integer they
\* denote (for int()) and their value in tenths (for float()).
IntStrings == {"7"}
FloatStrings == {"7", "2.5"}
IntOfStr(str) == CASE str = "7" -> 7 [] OTHER -> 0
TenthsOfStr(str) == CASE str = "7" -> 70 [] str = "2.5" -> 25 [] OTHER -> 0

\* pydantic's conversion of an input to a declared type in its default (lax)
\* mode: [ok, n, s], the converted number or string.
Converted(i, str) == [ok |-> TRUE, n |-> i, s |-> str]
NotConverted == [ok |-> FALSE, n |-> 0, s |-> ""]

\* int() of any float, dropping its fraction.
ToIntTruncating(v) ==
    CASE v.k = "int" -> Converted(v.n, "")
      [] v.k = "float" -> Converted(v.n \div 10, "")
      [] v.k = "str" /\ v.s \in IntStrings -> Converted(IntOfStr(v.s), "")
      [] OTHER -> NotConverted

ToInt(v) ==
    CASE v.k = "int" -> Converted(v.n, "")
      [] v.k = "float" /\ v.n % 10 = 0 -> Converted(v.n \div 10, "")
      [] v.k = "str" /\ v.s \in IntStrings -> Converted(IntOfStr(v.s), "")
      [] OTHER -> NotConverted

ToFloat(v) ==
    CASE v.k = "float" -> Converted(v.n, "")
      [] v.k = "int" -> Converted(v.n * 10, "")
      [] v.k = "str" /\ v.s \in FloatStrings -> Converted(TenthsOfStr(v.s), "")
      [] OTHER -> NotConverted

ToStr(v) ==
    CASE v.k = "str" -> Converted(0, v.s)
      [] OTHER -> NotConverted

Convert(type, v) ==
    CASE type = "int" -> ToInt(v)
      [] type = "float" -> ToFloat(v)
      [] OTHER -> ToStr(v)

\* One field of LeaderboardEntry(**item): required (Field(...)), looked up
\* under its alias only, then converted.
ValidateField(item, f) ==
    LET at == IndexOf(item.keys, Alias(f)) IN
    IF at = 0 THEN NotConverted ELSE Convert(FieldType(f), item.items[at])

FieldSet == {FieldNames[i] : i \in 1..Len(FieldNames)}

NoEntry == [f \in FieldSet |-> IF FieldType(f) = "str" THEN "" ELSE 0]

\* Exceptions: the type decides the except clause, the text is str(e).
NoExc == [type |-> "", text |-> ""]
TypeError == [type |-> "TypeError", text |-> "argument after ** must be a mapping"]
NotIterable == [type |-> "TypeError", text |-> "object is not iterable"]
ValidationError ==
    [type |-> "ValidationError", text |-> "validation errors for LeaderboardEntry"]
JSONDecodeError == [type |-> "JSONDecodeError", text |-> "Expecting value"]
OSErrorOpen == [type |-> "OSError", text |-> "Permission denied"]
OSErrorWrite == [type |-> "OSError", text |-> "No space left on device"]
UsageError == [type |-> "Exception", text |-> "show_usage failed"]
CrawlerError == [type |-> "Exception", text |-> "crawler failed"]

\* LeaderboardEntry(**item): [exc, entry]. ** needs a mapping; every field
\* must validate; keys that are no field's alias are ignored.
NewLeaderboardEntry(item) ==
    IF item.k # "dict" THEN [exc |-> TypeError, entry |-> NoEntry]
    ELSE IF \E f \in FieldSet : ~ValidateField(item, f).ok
    THEN [exc |-> ValidationError, entry |-> NoEntry]
    ELSE [exc |-> NoExc,
          entry |-> [f \in FieldSet |->
                        IF FieldType(f) = "str" THEN ValidateField(item, f).s
                        ELSE ValidateField(item, f).n]]

\* The characters of the strings the model iterates over.
CharsOf(str) == CASE str = "" -> <<>> [] str = "no" -> <<"n", "o">> [] OTHER -> <<str>>

\* iter(raw_data): a list yields its items, a dict its keys, a str its
\* characters; nothing else is iterable.
Iterable(v) == v.k \in {"list", "dict", "str"}
Iterate(v) ==
    CASE v.k = "list" -> v.items
      [] v.k = "dict" -> [i \in 1..Len(v.keys) |-> JStr(v.keys[i])]
      [] v.k = "str" -> [i \in 1..Len(CharsOf(v.s)) |-> JStr(CharsOf(v.s)[i])]
      [] OTHER -> <<>>

\* [LeaderboardEntry(**item) for item in raw_data]: the first exception ends
\* the comprehension; calls counts the constructor calls made.
RECURSIVE ValidateFrom(_, _, _)
ValidateFrom(items, i, acc) ==
    IF i > Len(items) THEN [exc |-> NoExc, entries |-> acc, calls |-> Len(items)]
    ELSE LET r == NewLeaderboardEntry(items[i]) IN
         IF r.exc # NoExc THEN [exc |-> r.exc, entries |-> <<>>, calls |-> i]
         ELSE ValidateFrom(items, i + 1, Append(acc, r.entry))

\* A comprehension that leaves out the items that raise.
RECURSIVE ValidateSkipping(_, _, _)
ValidateSkipping(items, i, acc) ==
    IF i > Len(items) THEN [exc |-> NoExc, entries |-> acc, calls |-> Len(items)]
    ELSE LET r == NewLeaderboardEntry(items[i]) IN
         ValidateSkipping(items, i + 1,
                          IF r.exc # NoExc THEN acc ELSE Append(acc, r.entry))

ValidateAllSkipping(raw) ==
    IF ~Iterable(raw) THEN [exc |-> NotIterable, entries |-> <<>>, calls |-> 0]
    ELSE ValidateSkipping(Iterate(raw), 1, <<>>)

ValidateAll(raw) ==
    IF ~Iterable(raw) THEN [exc |-> NotIterable, entries |-> <<>>, calls |-> 0]
    ELSE ValidateFrom(Iterate(raw), 1, <<>>)

\* model_dump() without by_alias: keyed by field name.
DumpKeyByName(f) == f

\* item.model_dump(by_alias=True): a dict keyed by alias, in field order.
DumpKey(f) == Alias(f)

ModelDump(entry) ==
    JDict([i \in 1..Len(FieldNames) |-> DumpKey(FieldNames[i])],
          [i \in 1..Len(FieldNames) |->
              LET f == FieldNames[i] IN
              CASE FieldType(f) = "int" -> JInt(entry[f])
                [] FieldType(f) = "float" -> JFloat(entry[f])
                [] OTHER -> JStr(entry[f])])

\* The text json.dump writes at lines 103-108.
OutputText(entries) ==
    JsonDump(JList([i \in 1..Len(entries) |-> ModelDump(entries[i])]), Indent)

-----------------------------------------------------------------------------
\* What the extraction service may return in the model.

\* The keys the schema reads, and the labels INSTRUCTION_TO_LLM asks for.
SchemaKeys ==
    <<"rank", "model", "arena score", "95% CI", "votes", "organization", "license">>
LabelKeys ==
    <<"Rank", "Model", "arena score", "95% CI", "votes", "organization", "License">>

ValsA ==
    <<JInt(1), JStr("X"), JFloat(13005), JStr("+2/-2"), JInt(500), JStr("Acme"),
      JStr("MIT")>>
ValsB ==
    <<JInt(2), JStr("Y"), JFloat(12500), JStr("+3/-3"), JInt(400), JStr("Bolt"),
      JStr("Apache")>>

Without(seq, i) == SubSeq(seq, 1, i - 1) \o SubSeq(seq, i + 1, Len(seq))

RecA == JDict(SchemaKeys, ValsA)
\* the same kind of record with its keys in the opposite order
Reverse(seq) == [i \in 1..Len(seq) |-> seq[Len(seq) + 1 - i]]
RecB == JDict(Reverse(SchemaKeys), Reverse(ValsB))
\* the record of the labelled scenario
RecLabels == JDict(LabelKeys, ValsA)
\* one required key absent
RecMissing(i) == JDict(Without(SchemaKeys, i), Without(ValsA, i))
\* the two aliased fields under their field names
RecFieldNames == JDict(FieldNames, ValsA)
\* a key the schema does not know
RecExtra == JDict(Append(SchemaKeys, "url"), Append(ValsA, JStr("u")))
\* values of another type than declared that int() and float() can read
RecNumeric ==
    JDict(SchemaKeys,
          <<JStr("7"), JStr("X"), JInt(1300), JStr("+2/-2"), JFloat(5000),
            JStr("Acme"), JStr("MIT")>>)
\* values of another type than declared that cannot be read as it
RecWrong(i, v) == JDict(SchemaKeys, [ValsA EXCEPT ![i] = v])

WellTypedRecords == {RecA, RecB}
WrongRecords ==
    {RecWrong(1, JStr("2.5")), RecWrong(1, JFloat(15)), RecWrong(2, JInt(5)),
     RecWrong(3, JStr("high")), RecWrong(5, JStr("7.5x")), RecWrong(6, JNull)}
OtherRecords ==
    {RecLabels, RecFieldNames, RecExtra, RecNumeric, JInt(3)}
    \cup {RecMissing(i) : i \in 1..Len(SchemaKeys)}
    \cup WrongRecords
Records == WellTypedRecords \cup OtherRecords

RecordLists == UNION {[1..n -> Records] : n \in 0..MaxRecords}

\* JSON values that are no list
NonLists == {JDict(<<>>, <<>>), RecA, JStr(""), JStr("no"), JInt(5), JNull}

ValidTexts == {JsonDump(v, -1) : v \in {JList(l) : l \in RecordLists} \cup NonLists}
                \cup {JsonDump(JList(<<RecB, RecA>>), Indent)}

\* Text json.loads rejects: cut short, empty, no JSON at all, or with text
\* after the value.
SampleText == JsonDump(JList(<<RecA>>), -1)
BrokenTexts ==
    {SubSeq(SampleText, 1, n) : n \in 0..(Len(SampleText) - 1)}
    \cup {<<Tok("junk")>>, SampleText \o SampleText,
          <<Tok("["), TInt(1), Tok(","), Tok("]")>>,
          <<Tok("{"), TInt(1), Tok(":"), TInt(1), Tok("}")>>}

Payloads == ValidTexts \cup BrokenTexts

ErrorMessages == {"net::ERR_NAME_NOT_RESOLVED", "LLM extraction failed"}

\* OUTPUT_FILE before the run: absent, the output of an earlier run, or
\* something else.
Absent == [exists |-> FALSE, content |-> <<>>]
OnDisk(text) == [exists |-> TRUE, content |-> text]
PriorFiles ==
    {Absent,
     OnDisk(OutputText(<<NewLeaderboardEntry(RecB).entry>>)),
     OnDisk(<<Tok("junk"), Tok("junk")>>)}

-----------------------------------------------------------------------------
VARIABLES
    pc,              \* the statement main() is at
    result,          \* CrawlResult returned by crawler.arun
    raw_data,        \* line 93
    validated_data,  \* line 94
    exc,             \* the exception being handled or propagated
    file,            \* OUTPUT_FILE on disk
    console,         \* the lines printed
    prior,           \* OUTPUT_FILE as it was before the run
    calls,           \* calls of crawler.arun
    nLoads,          \* calls of json.loads
    nEntries,        \* calls of LeaderboardEntry(**item)
    nOpen            \* calls of open(OUTPUT_FILE, "w")

vars ==
    <<pc, result, raw_data, validated_data, exc, file, console, prior, calls,
      nLoads, nEntries, nOpen>>

NoResult == [success |-> FALSE, extracted_content |-> <<>>, error_message |-> ""]

Line(msg, text, who, n) == [msg |-> msg, text |-> text, who |-> who, n |-> n]

Init ==
    /\ pc = "arun"
    /\ result = NoResult
    /\ raw_data = JNull
    /\ validated_data = <<>>
    /\ exc = NoExc
    /\ prior \in PriorFiles
    /\ file = prior
    /\ console = <<>>
    /\ calls = 0
    /\ nLoads = 0
    /\ nEntries = 0
    /\ nOpen = 0

-----------------------------------------------------------------------------
\* main(), one action per statement of lines 87-119.

\* An exception raised inside the try of lines 91-112 goes to its except
\* clauses.
Raise(e) ==
    /\ pc' = "except"
    /\ exc' = e

\* arun called again when its first result reports failure.
ArunReturnsRetrying ==
    /\ pc = "arun"
    /\ \/ \E text \in Payloads :
             /\ result' = [success |-> TRUE, extracted_content |-> text,
                           error_message |-> ""]
             /\ calls' = calls + 1
       \/ \E m \in ErrorMessages :
             /\ result' = [success |-> FALSE, extracted_content |-> <<>>,
                           error_message |-> m]
             /\ calls' = calls + 2
    /\ pc' = "if"
    /\ UNCHANGED <<raw_data, validated_data, exc, file, console, prior, nLoads,
                   nEntries, nOpen>>

\* lines 87-88: the crawler is entered and arun awaited. It returns a result
\* that reports success with the extracted text, or failure with a message.
ArunReturns ==
    /\ pc = "arun"
    /\ \/ \E text \in Payloads :
             result' = [success |-> TRUE, extracted_content |-> text,
                        error_message |-> ""]
       \/ \E m \in ErrorMessages :
             result' = [success |-> FALSE, extracted_content |-> <<>>,
                        error_message |-> m]
    /\ calls' = calls + 1
    /\ pc' = "if"
    /\ UNCHANGED <<raw_data, validated_data, exc, file, console, prior, nLoads,
                   nEntries, nOpen>>

\* lines 87-88 are outside the try: an exception raised by the crawler leaves
\* main() and asyncio.run.
ArunRaises ==
    /\ pc = "arun"
    /\ calls' = calls + 1
    /\ exc' = CrawlerError
    /\ pc' = "crashed"
    /\ UNCHANGED <<result, raw_data, validated_data, file, console, prior, nLoads,
                   nEntries, nOpen>>

\* line 93 entered whatever result.success is.
LoadsUnguarded ==
    /\ pc = "if"
    /\ nLoads' = nLoads + 1
    /\ LET r == JsonLoads(result.extracted_content) IN
       IF r.ok
       THEN /\ raw_data' = r.val
            /\ pc' = "validate"
            /\ exc' = exc
       ELSE /\ Raise(JSONDecodeError)
            /\ raw_data' = raw_data
    /\ UNCHANGED <<result, validated_data, file, console, prior, calls, nEntries,
                   nOpen>>

\* line 93: raw_data = json.loads(result.extracted_content)
Loads ==
    /\ pc = "if"
    /\ result.success
    /\ nLoads' = nLoads + 1
    /\ LET r == JsonLoads(result.extracted_content) IN
       IF r.ok
       THEN /\ raw_data' = r.val
            /\ pc' = "validate"
            /\ exc' = exc
       ELSE /\ Raise(JSONDecodeError)
            /\ raw_data' = raw_data
    /\ UNCHANGED <<result, validated_data, file, console, prior, calls, nEntries,
                   nOpen>>

\* line 94: validated_data = [LeaderboardEntry(**item) for item in raw_data]
Validate ==
    /\ pc = "validate"
    /\ LET r == ValidateAll(raw_data) IN
       /\ nEntries' = nEntries + r.calls
       /\ IF r.exc = NoExc
          THEN /\ validated_data' = r.entries
               /\ pc' = "summary"
               /\ exc' = exc
          ELSE /\ Raise(r.exc)
               /\ validated_data' = validated_data
    /\ UNCHANGED <<result, raw_data, file, console, prior, calls, nLoads, nOpen>>

Shown(entries) == SubSeq(entries, 1, IF Len(entries) < 3 THEN Len(entries) ELSE 3)

\* lines 97-99: the count, then the first three entries
PrintSummary ==
    /\ pc = "summary"
    /\ console' =
          Append(console, Line("extracted", "", "", Len(validated_data)))
          \o [i \in 1..Len(Shown(validated_data)) |->
                 Line("entry", validated_data[i].model,
                      validated_data[i].organization, validated_data[i].arena_score)]
    /\ pc' = "open"
    /\ UNCHANGED <<result, raw_data, validated_data, exc, file, prior, calls,
                   nLoads, nEntries, nOpen>>

\* line 102 with mode "a": the file keeps what it holds.
OpenFileAppend ==
    /\ pc = "open"
    /\ nOpen' = nOpen + 1
    /\ \/ /\ file' = OnDisk(file.content)
          /\ pc' = "dump"
          /\ exc' = exc
       \/ /\ Raise(OSErrorOpen)
          /\ file' = file
    /\ UNCHANGED <<result, raw_data, validated_data, console, prior, calls, nLoads,
                   nEntries>>

\* line 102: open(OUTPUT_FILE, "w") creates the file or empties it, or fails
\* and leaves it alone.
OpenFile ==
    /\ pc = "open"
    /\ nOpen' = nOpen + 1
    /\ \/ /\ file' = OnDisk(<<>>)
          /\ pc' = "dump"
          /\ exc' = exc
       \/ /\ Raise(OSErrorOpen)
          /\ file' = file
    /\ UNCHANGED <<result, raw_data, validated_data, console, prior, calls, nLoads,
                   nEntries>>

\* What is on disk after json.dump wrote the first n tokens of text to the
\* opened file and the with block closed it.
Written(before, text, n) == OnDisk(before.content \o SubSeq(text, 1, n))

\* lines 103-108: json.dump writes the text piece by piece; the with block
\* closes the file. A write may fail at any point.
Dump ==
    /\ pc = "dump"
    /\ LET text == OutputText(validated_data) IN
       \/ /\ file' = Written(file, text, Len(text))
          /\ pc' = "saved"
          /\ exc' = exc
       \/ \E n \in 0..(Len(text) - 1) :
             /\ file' = Written(file, text, n)
             /\ Raise(OSErrorWrite)
    /\ UNCHANGED <<result, raw_data, validated_data, console, prior, calls, nLoads,
                   nEntries, nOpen>>

\* line 109
PrintSaved ==
    /\ pc = "saved"
    /\ console' = Append(console, Line("saved", "leaderboard_data.json", "", 0))
    /\ pc' = "usage"
    /\ UNCHANGED <<result, raw_data, validated_data, exc, file, prior, calls,
                   nLoads, nEntries, nOpen>>

\* line 112: llm_strategy.show_usage() returns or raises
ShowUsage ==
    /\ pc = "usage"
    /\ \/ /\ pc' = "done"
          /\ exc' = exc
       \/ Raise(UsageError)
    /\ UNCHANGED <<result, raw_data, validated_data, file, console, prior, calls,
                   nLoads, nEntries, nOpen>>

\* except Exception placed before except json.JSONDecodeError.
HandlerBroadFirst(e) == "unexpected"

\* The except clause that takes exception e (lines 114, 116), and the line it
\* prints (lines 115, 117).
Handler(e) == IF e.type = "JSONDecodeError" THEN "invalid_json" ELSE "unexpected"

Report(e) ==
    IF Handler(e) = "invalid_json" THEN Line("invalid_json", "", "", 0)
    ELSE Line("unexpected", e.text, "", 0)

\* An except clause too narrow for OSError, which then leaves main().
ExceptNarrow ==
    /\ pc = "except"
    /\ IF exc.type = "OSError"
       THEN /\ pc' = "crashed"
            /\ console' = console
       ELSE /\ console' = Append(console, Report(exc))
            /\ pc' = "done"
    /\ UNCHANGED <<result, raw_data, validated_data, exc, file, prior, calls,
                   nLoads, nEntries, nOpen>>

\* lines 114-117
Except ==
    /\ pc = "except"
    /\ console' = Append(console, Report(exc))
    /\ pc' = "done"
    /\ UNCHANGED <<result, raw_data, validated_data, exc, file, prior, calls,
                   nLoads, nEntries, nOpen>>

\* lines 118-119
PrintScrapeError ==
    /\ pc = "if"
    /\ ~result.success
    /\ console' = Append(console, Line("scrape_error", result.error_message, "", 0))
    /\ pc' = "done"
    /\ UNCHANGED <<result, raw_data, validated_data, exc, file, prior, calls,
                   nLoads, nEntries, nOpen>>

Next ==
    \/ ArunReturns
    \/ ArunRaises
    \/ Loads
    \/ Validate
    \/ PrintSummary
    \/ OpenFile
    \/ Dump
    \/ PrintSaved
    \/ ShowUsage
    \/ Except
    \/ PrintScrapeError

Spec == Init /\ [][Next]_vars

-----------------------------------------------------------------------------
\* Properties. The record schema is restated here from the data model (the
\* key of each field and its type), apart from the validator above.

Last(seq) == seq[Len(seq)]
KeySet(obj) == {obj.keys[i] : i \in 1..Len(obj.keys)}
ValueAt(obj, key) == obj.items[IndexOf(obj.keys, key)]

SchemaKeySet == {"rank", "model", "arena score", "95% CI", "votes", "organization", "license"}
SchemaType(key) ==
    CASE key \in {"rank", "votes"} -> "int"
      [] key = "arena score" -> "float"
      [] OTHER -> "str"

\* obj is an object with exactly the schema's keys, each of its declared type
SatisfiesSchema(obj) ==
    /\ obj.k = "dict"
    /\ KeySet(obj) = SchemaKeySet
    /\ \A key \in SchemaKeySet : ValueAt(obj, key).k = SchemaType(key)

\* a and b are objects with the same keys and the same value under each
SameObject(a, b) ==
    /\ a.k = "dict" /\ b.k = "dict"
    /\ KeySet(a) = KeySet(b)
    /\ \A key \in KeySet(a) : ValueAt(a, key) = ValueAt(b, key)

\* some required key is absent from the object rec
MissesRequired(rec) == rec.k = "dict" /\ \E key \in SchemaKeySet : key \notin KeySet(rec)

IsPrefix(a, b) == Len(a) <= Len(b) /\ SubSeq(b, 1, Len(a)) = a

Succeeded == result.success
Failed == result.error_message \in ErrorMessages
Finished == pc = "done"
\* the write of lines 102-108 was completed
Saved == \E i \in 1..Len(console) : console[i].msg = "saved"
IOFailed == exc.type = "OSError"

\* The payloads that are a list of well-formed records, with the list.
WellFormedLists == UNION {[1..n -> WellTypedRecords] : n \in 0..MaxRecords}
WellFormedPayloads ==
    {[list |-> l, text |-> JsonDump(JList(l), -1)] : l \in WellFormedLists}
    \cup {[list |-> <<RecB, RecA>>, text |-> JsonDump(JList(<<RecB, RecA>>), Indent)]}

\* C1: when a successful extraction returned a list of N well-formed records
\* and the file could be opened and written, then after the run, whatever the
\* file held before, it parses as a list of exactly N objects, the i-th
\* carrying the values of the i-th record and satisfying the schema; nothing
\* else is in the file.
C1_OutputHoldsAllRecords ==
    (Finished /\ Succeeded /\ ~IOFailed) =>
        \A p \in WellFormedPayloads :
            result.extracted_content = p.text =>
                /\ file.exists
                /\ LET out == JsonLoads(file.content) IN
                   /\ out.ok
                   /\ out.val.k = "list"
                   /\ Len(out.val.items) = Len(p.list)
                   /\ \A i \in 1..Len(p.list) :
                         /\ SatisfiesSchema(out.val.items[i])
                         /\ SameObject(out.val.items[i], p.list[i])

C1_Witness ==
    /\ Finished
    /\ result.extracted_content = JsonDump(JList(<<RecB, RecA>>), -1)
    /\ prior.exists /\ prior.content # <<>>
    /\ ~IOFailed
    /\ file # prior

\* The payloads that are a list in which some record misses a required key.
MissingFieldPayloads ==
    {JsonDump(JList(l), -1) :
        l \in {r \in RecordLists : \E i \in 1..Len(r) : MissesRequired(r[i])}}

\* C2: when some record of the payload, at any index, misses a required
\* field, the file is never opened and stays as it was (absent, or with the
\* content it had), and no record is written.
C2_MissingFieldWritesNothing ==
    (Succeeded /\ result.extracted_content \in MissingFieldPayloads) =>
        /\ nOpen = 0
        /\ file = prior
        /\ ~Saved
        /\ pc \in {"if", "validate", "except", "done"}

C2_Witness ==
    /\ Finished
    /\ result.extracted_content = JsonDump(JList(<<RecA, RecMissing(5)>>), -1)
    /\ nEntries = 2
    /\ prior.exists
    /\ file = prior

\* C3: when the extraction succeeded and the text is not valid JSON, the run
\* prints the invalid-JSON line and nothing else, and ends without calling
\* the record constructor and without opening the file.
C3_MalformedPayloadReported ==
    (Succeeded /\ result.extracted_content \in BrokenTexts) =>
        /\ nEntries = 0
        /\ nOpen = 0
        /\ file = prior
        /\ pc \in {"if", "except", "done"}
        /\ Finished => console = <<Line("invalid_json", "", "", 0)>>

C3_Witness ==
    /\ Finished
    /\ result.extracted_content = SubSeq(SampleText, 1, Len(SampleText) - 1)
    /\ nLoads = 1
    /\ console = <<Line("invalid_json", "", "", 0)>>

\* C4: when the service returned a failure result, the run prints the
\* scraping-error line with the service's message and ends normally, without
\* json.loads, without the record constructor and without opening the file.
C4_ExtractionFailureReported ==
    Failed =>
        /\ nLoads = 0
        /\ nEntries = 0
        /\ nOpen = 0
        /\ file = prior
        /\ exc = NoExc
        /\ pc \in {"if", "done"}
        /\ Finished =>
              console = <<Line("scrape_error", result.error_message, "", 0)>>

C4_Witness ==
    /\ Finished
    /\ Failed
    /\ console = <<Line("scrape_error", "LLM extraction failed", "", 0)>>

\* The payloads that are valid JSON and make line 94 raise: a value that
\* cannot be iterated, or an item that is no object or that the schema rejects.
RejectedRecords == OtherRecords \ {RecExtra, RecNumeric}
RejectedPayloads ==
    {JsonDump(JList(l), -1) :
        l \in {r \in RecordLists : \E i \in 1..Len(r) : r[i] \in RejectedRecords}}
    \cup {JsonDump(v, -1) : v \in {RecA, JStr("no"), JInt(5), JNull}}
\* Valid JSON that is no list and iterates to nothing.
EmptyNonLists == {JsonDump(v, -1) : v \in {JDict(<<>>, <<>>), JStr("")}}

\* C5 (as amended): the run prints three kinds of error line. A failure
\* result is reported by the scraping-error line and by nothing else; text
\* that json.loads rejects by the invalid-JSON line and by nothing else;
\* every other exception (a record with a missing or unconvertible field,
\* valid JSON that is no list of objects, a failure of the file or of the
\* usage report) by the one unexpected-error line, with str(e). An empty
\* object or empty string as payload is no error: an empty array is written.
C5_ThreeReportedKinds ==
    Finished =>
        /\ Failed => console = <<Line("scrape_error", result.error_message, "", 0)>>
        /\ (Succeeded /\ result.extracted_content \in BrokenTexts)
              => console = <<Line("invalid_json", "", "", 0)>>
        /\ (Succeeded /\ result.extracted_content \in RejectedPayloads)
              => /\ console = <<Line("unexpected", exc.text, "", 0)>>
                 /\ exc.type \in {"TypeError", "ValidationError"}
        /\ IOFailed => Last(console) = Line("unexpected", exc.text, "", 0)
        /\ (Succeeded /\ result.extracted_content \in EmptyNonLists /\ exc = NoExc)
              => /\ file = OnDisk(<<Tok("["), Tok("]")>>)
                 /\ \A i \in 1..Len(console) : console[i].msg \in {"extracted", "saved"}
        /\ \A i \in 1..Len(console) :
              /\ console[i].msg = "scrape_error" => Failed
              /\ console[i].msg = "invalid_json"
                    => (Succeeded /\ result.extracted_content \in BrokenTexts)

C5_Witness ==
    /\ Finished
    /\ result.extracted_content = JsonDump(JList(<<RecA, RecMissing(1)>>), -1)
    /\ console = <<Line("unexpected", ValidationError.text, "", 0)>>

\* C5 (as claimed): a payload that is no list of objects, valid JSON or not,
\* is reported as malformed payload; a record that fails validation is
\* reported by a kind of its own, not the one of an unexpected error; a
\* failure result is reported as extraction failure.
C5_Original ==
    Finished =>
        /\ (Succeeded /\ result.extracted_content
                \in BrokenTexts \cup {JsonDump(v, -1) : v \in NonLists})
              => Last(console).msg = "invalid_json"
        /\ exc.type = "ValidationError"
              => Last(console).msg \notin {"invalid_json", "scrape_error", "unexpected"}
        /\ Failed => Last(console).msg = "scrape_error"

\* C6: the payload of one record keyed by the labels the instruction asks
\* the LLM for passes validation, and (when the file can be written) the file
\* then holds exactly one object with the record's seven values.
C6_LabelledRecordIsWritten ==
    (Finished /\ Succeeded /\ ~IOFailed
        /\ result.extracted_content = JsonDump(JList(<<RecLabels>>), -1)) =>
        /\ file.exists
        /\ LET out == JsonLoads(file.content) IN
           /\ out.ok
           /\ out.val.k = "list"
           /\ Len(out.val.items) = 1
           /\ {out.val.items[1].items[i] : i \in 1..Len(out.val.items[1].items)}
                 = {ValsA[i] : i \in 1..Len(ValsA)}

C8_FailuresInsideTryAreCaught ==
    /\ pc = "crashed" =>
          (exc = CrawlerError /\ result = NoResult /\ nLoads = 0 /\ console = <<>>)
    /\ (exc # NoExc /\ exc # CrawlerError) => pc \in {"except", "done"}
    /\ (Finished /\ exc # NoExc) =>
          /\ Last(console).msg \in {"invalid_json", "unexpected"}
          /\ Last(console).msg = "unexpected" => Last(console).text = exc.text

C8_Witness ==
    /\ Finished
    /\ exc = OSErrorWrite
    /\ Last(console) = Line("unexpected", OSErrorWrite.text, "", 0)

\* C8 (as claimed): no run ends with an exception leaving main().
C8_Original == pc # "crashed"

\* What validation makes of a record it accepts.
RecNumericConverted ==
    JDict(SchemaKeys,
          <<JInt(7), JStr("X"), JFloat(13000), JStr("+2/-2"), JInt(500),
            JStr("Acme"), JStr("MIT")>>)
Persisted(rec) == IF rec = RecNumeric THEN RecNumericConverted ELSE rec

ConvertiblePayloads ==
    {[list |-> l, text |-> JsonDump(JList(l), -1)] :
        l \in UNION {[1..n -> {RecA, RecB, RecNumeric}] : n \in 1..MaxRecords}}
UnconvertiblePayloads ==
    {JsonDump(JList(l), -1) :
        l \in {r \in RecordLists : \E i \in 1..Len(r) : r[i] \in WrongRecords}}

\* C9 (as amended): every record in a written file has all required fields
\* with values of the declared types. A value that arrives with another type
\* is converted when it can be read as the declared type (a numeric string or
\* a whole float as int; an int or a numeric string as float) and the
\* converted value is written; when it cannot (a fractional float or another
\* string as int, a number as str, null), the whole batch fails with the
\* unexpected-error line and the file is not opened.
C9_ConvertOrRejectBatch ==
    /\ Saved =>
          LET out == JsonLoads(file.content) IN
          /\ out.ok /\ out.val.k = "list"
          /\ \A i \in 1..Len(out.val.items) : SatisfiesSchema(out.val.items[i])
    /\ (Succeeded /\ result.extracted_content \in UnconvertiblePayloads) =>
          /\ nOpen = 0
          /\ file = prior
          /\ pc \in {"if", "validate", "except", "done"}
          /\ Finished => Last(console).msg = "unexpected"
    /\ (Finished /\ Succeeded /\ ~IOFailed) =>
          \A p \in ConvertiblePayloads :
              result.extracted_content = p.text =>
                  LET out == JsonLoads(file.content) IN
                  /\ out.ok /\ Len(out.val.items) = Len(p.list)
                  /\ \A i \in 1..Len(p.list) :
                        SameObject(out.val.items[i], Persisted(p.list[i]))

C9_Witness ==
    /\ Finished
    /\ result.extracted_content = JsonDump(JList(<<RecNumeric>>), -1)
    /\ Saved
    /\ file = OnDisk(JsonDump(JList(<<RecNumericConverted>>), Indent))

\* The payloads in which some record has a value of another type than declared.
OffTypePayloads ==
    {JsonDump(JList(l), -1) :
        l \in {r \in RecordLists :
                 \E i \in 1..Len(r) : r[i] \in WrongRecords \cup {RecNumeric}}}

\* C9 (as claimed): a record with a value of a type other than the declared
\* one is rejected, not converted: the batch fails and nothing is written.
C9_Original ==
    (Succeeded /\ result.extracted_content \in OffTypePayloads) =>
        /\ nOpen = 0
        /\ file = prior

\* C10 (as amended): the crawler is called exactly once per run, and after a
\* run the file is as it was before, or it holds the serialization of all
\* validated records: all of it, unless the write failed after the file was
\* opened, and then the prior content is gone and the file holds the part
\* written before the failure. A failure after the write leaves all of it.
C10_UnchangedOrPrefixOfOutput ==
    (pc \in {"done", "crashed"}) =>
        /\ calls = 1
        /\ \/ file = prior
           \/ /\ file.exists
              /\ nOpen = 1
              /\ IsPrefix(file.content, OutputText(validated_data))
              /\ exc # OSErrorWrite => file.content = OutputText(validated_data)

C10_Witness ==
    /\ Finished
    /\ exc = OSErrorWrite
    /\ prior.exists
    /\ file # prior
    /\ Len(file.content) > 0
    /\ Len(file.content) < Len(OutputText(validated_data))

\* C10 (as claimed): after any run the file is unchanged or holds the
\* complete serialization of the validated records, and the crawler was
\* called once.
C10_Original ==
    Finished =>
        /\ calls = 1
        /\ \/ file = prior
           \/ file = OnDisk(OutputText(validated_data))

====
